---- MODULE Spec2Model ----
(***************************************************************************)
(* A model of bmi_bot.py: the interactive BMI / calorie-plan chat bot.     *)
(*                                                                         *)
(* Text is a sequence of one-character strings, so that the parsers are    *)
(* modelled character by character as the source scans them.               *)
(*                                                                         *)
(* Numbers.  Python floats are modelled as exact decimals held in scaled   *)
(* integers:                                                               *)
(*    a value read by float()        thousandths        (milli)            *)
(*    a mass returned by parse_weight hundredths of kg  (centi-kg)         *)
(*    a length returned by parse_height tenths of cm    (deci-cm)          *)
(* round(x, n) is Python's round: to nearest, ties to even.  The numerals  *)
(* the model feeds the parsers have at most three decimals and none of     *)
(* them puts a binary double on the other side of a tie than its decimal.  *)
(* Where the rounding error of a double can be seen (the plan), the model  *)
(* carries the side on which the double lies.                              *)
(*                                                                         *)
(* Specifications:                                                         *)
(*    Spec        main: the consent question, the menu loop, both actions  *)
(*    SpecWeight  the prompt loop of parse_weight                          *)
(*    SpecHeight  the prompt loop of parse_height                          *)
(*    SpecPlan    one call of recommend_calories_for_weight_loss           *)
(*    SpecMacros  one call of recommend_macros                             *)
(***************************************************************************)
EXTENDS Integers, Sequences, FiniteSets

VARIABLES
    pc,        \* where the program is: which input() it waits at, or how it ended
    consent,   \* main's local `consent`
    choice,    \* main's local `choice`, the last menu line read (stripped)
    raw,       \* the last line read by input()
    weight,    \* centi-kg: `weight` of action_check_bmi / action_plan; current_weight
    target,    \* centi-kg: `target` of action_plan; target_weight
    age,       \* `age` of action_plan
    sex,       \* `sex` of action_plan
    height,    \* deci-cm: `height` of action_check_bmi / action_plan
    activity,  \* `activity` of action_plan; activity_key
    tdee,      \* `tdee` of action_plan (kcal, an integer after round())
    days,      \* `days` of action_plan
    plan,      \* the dict returned by recommend_calories_for_weight_loss
    macros,    \* the dict returned by recommend_macros
    fp,        \* the sides the float operations took in the call that made plan
    out,       \* the last thing printed (a tag for the print statement)
    err        \* the uncaught exception that ended the program, or "none"

vars == <<pc, consent, choice, raw, weight, target, age, sex, height, activity,
          tdee, days, plan, macros, fp, out, err>>

None == "none"

-----------------------------------------------------------------------------
(* Python str operations on sequences of characters *)

Lowers == <<"a","b","c","d","e","f","g","h","i","j","k","l","m",
            "n","o","p","q","r","s","t","u","v","w","x","y","z">>
Uppers == <<"A","B","C","D","E","F","G","H","I","J","K","L","M",
            "N","O","P","Q","R","S","T","U","V","W","X","Y","Z">>

LowerChar(c) ==
    IF \E i \in 1..Len(Uppers) : Uppers[i] = c
    THEN Lowers[CHOOSE i \in 1..Len(Uppers) : Uppers[i] = c]
    ELSE c

UpperChar(c) ==
    IF \E i \in 1..Len(Lowers) : Lowers[i] = c
    THEN Uppers[CHOOSE i \in 1..Len(Lowers) : Lowers[i] = c]
    ELSE c

\* str.lower()
Lower(s) == [i \in 1..Len(s) |-> LowerChar(s[i])]

\* str.upper()
Upper(s) == [i \in 1..Len(s) |-> UpperChar(s[i])]

IsSpace(c) == c = " "

IsDigit(c) == c \in {"0","1","2","3","4","5","6","7","8","9"}

DigitVal(c) ==
    CASE c = "0" -> 0 [] c = "1" -> 1 [] c = "2" -> 2 [] c = "3" -> 3
      [] c = "4" -> 4 [] c = "5" -> 5 [] c = "6" -> 6 [] c = "7" -> 7
      [] c = "8" -> 8 [] c = "9" -> 9

RECURSIVE LStrip(_)
LStrip(s) == IF s # <<>> /\ IsSpace(Head(s)) THEN LStrip(Tail(s)) ELSE s

RECURSIVE RStrip(_)
RStrip(s) ==
    IF s # <<>> /\ IsSpace(s[Len(s)]) THEN RStrip(SubSeq(s, 1, Len(s) - 1)) ELSE s

\* str.strip()
Strip(s) == RStrip(LStrip(s))

\* str.startswith(p)
StartsWith(s, p) == Len(s) >= Len(p) /\ SubSeq(s, 1, Len(p)) = p

\* `sub in s`
Contains(s, sub) ==
    \E i \in 1..(Len(s) - Len(sub) + 1) : SubSeq(s, i, i + Len(sub) - 1) = sub

\* str.replace(old, new): left to right, non-overlapping; old is not empty
RECURSIVE Replace(_, _, _)
Replace(s, old, new) ==
    IF Len(s) < Len(old) THEN s
    ELSE IF StartsWith(s, old)
         THEN new \o Replace(SubSeq(s, Len(old) + 1, Len(s)), old, new)
         ELSE <<Head(s)>> \o Replace(Tail(s), old, new)

\* the first whitespace-free run of s, which does not start with a space
RECURSIVE FirstWord(_)
FirstWord(s) ==
    IF s = <<>> \/ IsSpace(Head(s)) THEN <<>> ELSE <<Head(s)>> \o FirstWord(Tail(s))

\* str.split(): on runs of whitespace, no empty strings
RECURSIVE Split(_)
Split(s) ==
    LET t == LStrip(s) IN
    IF t = <<>> THEN <<>>
    ELSE LET w == FirstWord(t) IN <<w>> \o Split(SubSeq(t, Len(w) + 1, Len(t)))

-----------------------------------------------------------------------------
(* Numbers *)

\* thousandths per unit: the scale of a value read by float()
Milli == 10^3

\* round(num / den) for den > 0: to nearest, ties to even (Python's round)
RoundDiv(num, den) ==
    LET q == num \div den
        r == num % den
    IN  IF 2 * r < den THEN q
        ELSE IF 2 * r > den THEN q + 1
        ELSE IF q % 2 = 0 THEN q ELSE q + 1

\* int(num / den) for den > 0: truncation toward zero
TruncDiv(num, den) == IF num >= 0 THEN num \div den ELSE -((-num) \div den)

\* the digits of s read as a natural number
RECURSIVE DigitsVal(_)
DigitsVal(s) ==
    IF s = <<>> THEN 0 ELSE DigitsVal(SubSeq(s, 1, Len(s) - 1)) * 10 + DigitVal(s[Len(s)])

AllDigits(s) == \A i \in 1..Len(s) : IsDigit(s[i])

\* float(s) of an unsigned numeral: digits with at most one '.', one digit at least
FloatUnsigned(s) ==
    LET dots == {i \in 1..Len(s) : s[i] = "."} IN
    IF Cardinality(dots) > 1 THEN [ok |-> FALSE, v |-> 0]
    ELSE LET d     == IF dots = {} THEN Len(s) + 1 ELSE CHOOSE i \in dots : TRUE
             whole == SubSeq(s, 1, d - 1)
             frac  == SubSeq(s, d + 1, Len(s))
             frac3 == [i \in 1..3 |-> IF i <= Len(frac) THEN frac[i] ELSE "0"]
         IN  IF AllDigits(whole) /\ AllDigits(frac) /\ Len(whole) + Len(frac) > 0
                /\ Len(frac) <= 3
             THEN [ok |-> TRUE, v |-> DigitsVal(whole) * Milli + DigitsVal(frac3)]
             ELSE [ok |-> FALSE, v |-> 0]

\* float(s): ok = FALSE is ValueError; v is the value in thousandths.
\* Covers [sign] digits [. digits] with up to three decimals, the numerals the
\* model reads; exponents, inf, nan and underscores are not among them.
Float(s) ==
    LET t == Strip(s) IN
    IF t # <<>> /\ Head(t) = "-"
    THEN LET u == FloatUnsigned(Tail(t)) IN [ok |-> u.ok, v |-> -u.v]
    ELSE IF t # <<>> /\ Head(t) = "+" THEN FloatUnsigned(Tail(t))
    ELSE FloatUnsigned(t)

-----------------------------------------------------------------------------
(* parse_weight *)

\* kg per lb, in units of 10^-8
LbFactor == 45359237

\* round(val * 0.45359237, 2) for val > 0 in thousandths, in centi-kg: the
\* exact product val * 45359237 (units of 10^-11 kg) divided by 10^9, taken
\* in base-10^4 limbs so that no intermediate leaves 32 bits
RoundLb(val) ==
    LET a1  == val \div 10000
        a0  == val % 10000
        b1  == LbFactor \div 10000
        b0  == LbFactor % 10000
        c0  == a0 * b0
        c2  == a1 * b1
        t   == a1 * b0 + a0 * b1 + c0 \div 10000
        r0  == c0 % 10000
        u   == (c2 % 10) * 10000 + t
        q   == c2 \div 10 + u \div 100000
        rem == (u % 100000) * 10000 + r0
    IN  IF rem < 500000000 THEN q
        ELSE IF rem > 500000000 THEN q + 1
        ELSE IF q % 2 = 0 THEN q ELSE q + 1

\* the loop of lines 56-60: digits and '.' to num, everything else to unit
ScanNum(token)  == SelectSeq(token, LAMBDA ch : IsDigit(ch) \/ ch = ".")
ScanUnit(token) == SelectSeq(token, LAMBDA ch : ~(IsDigit(ch) \/ ch = "."))

Retry(m) == [ret |-> FALSE, val |-> 0, msg |-> m]
Return(v) == [ret |-> TRUE, val |-> v, msg |-> None]

\* lines 73-76: the positivity test is on kg before rounding
WeightAccept(val, kg) ==
    IF val <= 0 THEN Retry("Weight must be positive.") ELSE Return(kg)

\* One pass of parse_weight's loop on the line read: the value returned
\* (centi-kg), or the message printed before the next prompt.
ParseWeight(line) ==
    LET raw0 == Lower(Strip(line)) IN
    IF raw0 = <<>> THEN Retry("Please enter your weight.")
    ELSE
    LET raw1  == Replace(Replace(raw0, <<"k","g","s">>, <<"k","g">>),
                         <<"l","b","s">>, <<"l","b">>)
        parts == Split(Replace(raw1, <<",">>, <<".">>))
        one   == Len(parts) = 1
        f     == IF one THEN Float(ScanNum(parts[1])) ELSE Float(parts[1])
        unit  == IF one
                 THEN (IF ScanUnit(parts[1]) = <<>> THEN <<"k","g">> ELSE ScanUnit(parts[1]))
                 ELSE parts[2]
    IN  IF ~f.ok THEN Retry("Couldn't parse weight.")
        ELSE IF StartsWith(unit, <<"k">>)
             THEN WeightAccept(f.v, RoundDiv(f.v, 10))
        ELSE IF StartsWith(unit, <<"l">>)
             THEN WeightAccept(f.v, IF f.v > 0 THEN RoundLb(f.v) ELSE 0)
        ELSE Retry("Unknown unit; use 'kg' or 'lb'.")

-----------------------------------------------------------------------------
(* parse_height *)

\* a variant: only a number below 3 is read as metres
HeightCm_StrictThreshold(one, num) ==
    IF one /\ num < 3 * Milli THEN num * 100 ELSE num

\* lines 95-100: the height in thousandths of a cm, from the number read
\* (thousandths) and whether the line was a single token
HeightCm(one, num) ==
    IF one /\ num < 3 * Milli THEN num * 100
    ELSE IF one /\ num <= 3 * Milli THEN num * 100
    ELSE num

\* line 93: the line is handled as a plain number of centimetres (or metres)
IsSimple(parts) ==
    Len(parts) = 1 \/ (Len(parts) = 2 /\ StartsWith(parts[2], <<"c">>))

\* lines 109-113: the loop over tokens; ft and inch take the number before each
\* 'ft' and 'in' token, and a float() that fails there ends the pass (ok = FALSE)
RECURSIVE FtInScan(_, _, _)
FtInScan(tokens, i, acc) ==
    IF i > Len(tokens) \/ ~acc.ok THEN acc
    ELSE LET t  == tokens[i]
             f  == IF i > 1 THEN Float(tokens[i - 1]) ELSE [ok |-> FALSE, v |-> 0]
         IN  IF t = <<"f","t">> /\ i > 1
             THEN FtInScan(tokens, i + 1,
                           IF f.ok THEN [acc EXCEPT !.hasft = TRUE, !.ft = f.v]
                                   ELSE [acc EXCEPT !.ok = FALSE])
             ELSE IF t = <<"i","n">> /\ i > 1
             THEN FtInScan(tokens, i + 1,
                           IF f.ok THEN [acc EXCEPT !.inch = f.v]
                                   ELSE [acc EXCEPT !.ok = FALSE])
             ELSE FtInScan(tokens, i + 1, acc)

\* line 116: the parts made of digits and '.' only
NumParts(parts) ==
    SelectSeq(parts, LAMBDA p : \A i \in 1..Len(p) : IsDigit(p[i]) \/ p[i] = ".")

\* lines 104-119: ft (when hasft) and inch, in thousandths
FtIn(raw2, parts) ==
    LET start == [ok |-> TRUE, hasft |-> FALSE, ft |-> 0, inch |-> 0] IN
    IF Contains(raw2, <<"f","t">>) \/ Contains(raw2, <<"f","o","o","t">>)
    THEN FtInScan(Split(Replace(Replace(raw2, <<"f","t">>, <<" ","f","t"," ">>),
                                <<"i","n">>, <<" ","i","n"," ">>)), 1, start)
    ELSE LET nums == NumParts(parts) IN
         IF Len(nums) >= 2
         THEN LET a == Float(nums[1])
                  b == Float(nums[2])
              IN  IF a.ok /\ b.ok
                  THEN [ok |-> TRUE, hasft |-> TRUE, ft |-> a.v, inch |-> b.v]
                  ELSE [start EXCEPT !.ok = FALSE]
         ELSE start

\* lines 101 and 122: the rounded value is returned as it is
HeightAccept(dcm) == Return(dcm)

\* One pass of parse_height's loop on the line read: the value returned
\* (deci-cm), or the message printed before the next prompt.
ParseHeight(line) ==
    LET raw0 == Lower(Strip(line)) IN
    IF raw0 = <<>> THEN Retry("Please enter your height.")
    ELSE
    LET raw1  == Replace(Replace(Replace(Replace(raw0,
                     <<"\"">>, <<" ","i","n">>),
                     <<"'">>, <<" ","f","t"," ">>),
                     <<"f","e","e","t">>, <<"f","t">>),
                     <<"m","e","t","e","r">>, <<"m">>)
        raw2  == Replace(raw1, <<"c","m","s">>, <<"c","m">>)
        parts == Split(Replace(raw2, <<",">>, <<".">>))
    IN  IF IsSimple(parts)
        THEN LET num == Float(parts[1]) IN
             IF ~num.ok THEN Retry("Couldn't parse height. Examples")
             ELSE HeightAccept(RoundDiv(HeightCm(Len(parts) = 1, num.v), 100))
        ELSE LET fi == FtIn(raw2, parts) IN
             IF ~fi.ok THEN Retry("Couldn't parse height. Examples")
             ELSE IF fi.hasft
                  THEN HeightAccept(RoundDiv(fi.ft * 3048 + fi.inch * 254, 10000))
             ELSE Retry("Couldn't parse height. Use")

-----------------------------------------------------------------------------
(* calculate_bmi, bmi_category, bmr_mifflin_sex, estimate_tdee *)

\* calculate_bmi for height_cm # 0: round(weight_kg / height_m^2, 1) in tenths,
\* weight in centi-kg and height in deci-cm: weight * 10^5 / height^2, divided
\* in two steps
calculate_bmi(weight_c, height_d) ==
    LET den == height_d * height_d
        q1  == (weight_c * 1000) \div den
        r1  == (weight_c * 1000) % den
    IN  q1 * 100 + RoundDiv(r1 * 100, den)

\* bmi in tenths
bmi_category(bmi) ==
    IF bmi < 185 THEN "Underweight"
    ELSE IF bmi < 250 THEN "Normal (healthy weight)"
    ELSE IF bmi < 300 THEN "Overweight"
    ELSE "Obesity"

\* bmr_mifflin_sex in fortieths of a kcal: 10*weight is 4 per centi-kg,
\* 6.25*height_cm is 25 per deci-cm, 5*age is 200 per year
bmr_mifflin_sex(weight_c, height_d, age_y, sex_s) ==
    LET s    == Lower(sex_s)
        base == 4 * weight_c + 25 * height_d - 200 * age_y
    IN  IF StartsWith(s, <<"m">>) THEN base + 5 * 40
        ELSE IF StartsWith(s, <<"f">>) THEN base - 161 * 40
        ELSE ((base + 5 * 40) + (base - 161 * 40)) \div 2

\* ACTIVITY_LEVELS.get(activity_key, (None, 1.2))[1], in thousandths
ActivityMultiplier(activity_key) ==
    CASE activity_key = <<"1">> -> 1200
      [] activity_key = <<"2">> -> 1375
      [] activity_key = <<"3">> -> 1550
      [] activity_key = <<"4">> -> 1725
      [] activity_key = <<"5">> -> 1900
      [] OTHER -> 1200

\* estimate_tdee: round(bmr * multiplier), kcal
estimate_tdee(weight_c, height_d, age_y, sex_s, activity_key) ==
    RoundDiv(bmr_mifflin_sex(weight_c, height_d, age_y, sex_s)
               * ActivityMultiplier(activity_key), 40 * 1000)

-----------------------------------------------------------------------------
(* recommend_macros *)

\* activity_to_protein.get(activity_key, 1.6), in tenths of g per kg
ProteinPerKg(activity_key) ==
    CASE activity_key = <<"1">> -> 16
      [] activity_key = <<"2">> -> 16
      [] activity_key = <<"3">> -> 18
      [] activity_key = <<"4">> -> 20
      [] activity_key = <<"5">> -> 22
      [] OTHER -> 16

Max(a, b) == IF a >= b THEN a ELSE b

\* a variant: the carbohydrate grams without the floor at 0
CarbG_NoFloor(remaining100) == RoundDiv(remaining100, 400)

\* line 190: max(round(remaining_kcal / 4), 0), remaining_kcal in hundredths
CarbG(remaining100) == Max(RoundDiv(remaining100, 400), 0)

\* line 198: int(remaining_kcal if remaining_kcal > 0 else 0)
CarbKcal(remaining100) == IF remaining100 > 0 THEN TruncDiv(remaining100, 100) ELSE 0

\* recommend_macros(suggested_calories, weight_kg, activity_key); fat_kcal and
\* remaining_kcal are held in hundredths of a kcal (fat_pct = 0.28)
recommend_macros(suggested_calories, weight_c, activity_key) ==
    LET protein_g    == RoundDiv(ProteinPerKg(activity_key) * weight_c, 1000)
        protein_kcal == protein_g * 4
        fat100       == suggested_calories * 28
        remaining100 == suggested_calories * 100 - (protein_kcal * 100 + fat100)
    IN  [protein_g    |-> protein_g,
         fat_g        |-> RoundDiv(fat100, 900),
         carb_g       |-> CarbG(remaining100),
         protein_kcal |-> protein_kcal,
         fat_kcal     |-> TruncDiv(fat100, 100),
         carb_kcal    |-> CarbKcal(remaining100)]

-----------------------------------------------------------------------------
(* recommend_calories_for_weight_loss *)

\* line 203: kcal per kg of fat
KcalPerKg == 7700

\* line 212
max_safe_deficit == 1000

\* line 226
min_cal == 1200

\* a variant: an equal target goes on to a plan
NeedsNoDeficit_Strict(kg_to_lose) == kg_to_lose < 0

\* line 205
NeedsNoDeficit(kg_to_lose) == kg_to_lose <= 0

(* The floats of this function are not modelled exactly: current_weight and
   target_weight are the doubles nearest to two-decimal numbers, so their
   difference, its product with 7700 and the quotient by the days are
   doubles an ulp or so off the exact values (90.1 - 80 is 10.099999999999994).
   That is invisible except where an exact value sits on a jump of int(), of a
   comparison or of round(): there the double falls on either side.  A float is
   therefore a record [n, d, e]: the exact value n / d (d > 0) and the side
   e in {-1, 0, 1} on which the double lies (0: the double is exact).  *)
Sides == {-1, 0, 1}

\* x > c and x < c for a float x and an integer c
FGt(x, c) == x.n > c * x.d \/ (x.n = c * x.d /\ x.e > 0)
FLt(x, c) == x.n < c * x.d \/ (x.n = c * x.d /\ x.e < 0)

\* int(x) for a float x > 0
FInt(x) == IF x.n % x.d = 0 /\ x.e < 0 THEN x.n \div x.d - 1 ELSE x.n \div x.d

\* round() of the float num / den on side e: a tie goes to the side of the double
FRound(num, den, e) ==
    LET q == num \div den
        r == num % den
    IN  IF 2 * r = den /\ e > 0 THEN q + 1
        ELSE IF 2 * r = den /\ e < 0 THEN q
        ELSE RoundDiv(num, den)

\* a variant: a deficit of exactly 1000 counts as exceeding
ExceedsSafeDeficit_AtLeast(daily_deficit) == ~FLt(daily_deficit, max_safe_deficit)

\* line 214: daily_deficit > max_safe_deficit
ExceedsSafeDeficit(daily_deficit) == FGt(daily_deficit, max_safe_deficit)

\* a variant: an intake of exactly 1200 counts as below the minimum
BelowMinimum_AtMost(suggested_daily) == ~FGt(suggested_daily, min_cal)

\* line 227: suggested_daily < min_cal
BelowMinimum(suggested_daily) == FLt(suggested_daily, min_cal)

\* line 204 and 208: total_kcal_needed, exactly (7700 kcal per 100 centi-kg)
TotalKcal(current_weight, target_weight) ==
    ((current_weight - target_weight) * KcalPerKg) \div 100

\* line 209: daily_deficit as first computed, on side e
RequestedDeficit(current_weight, target_weight, days_n, e) ==
    [n |-> TotalKcal(current_weight, target_weight), d |-> Max(days_n, 1), e |-> e]

\* lines 214-217: daily_deficit after the cap
CappedDeficit(requested) ==
    IF ExceedsSafeDeficit(requested)
    THEN [n |-> max_safe_deficit, d |-> 1, e |-> 0]
    ELSE requested

\* lines 218 and 222: suggested_daily = tdee - daily_deficit, on side e
SuggestedDaily(tdee_k, daily_deficit, e) ==
    [n |-> tdee_k * daily_deficit.d - daily_deficit.n, d |-> daily_deficit.d, e |-> e]

\* (deficit * 7) / 7700 rounded to 3 decimals, in thousandths of a kg:
\* deficit * 7 * 1000 / 7700 = deficit * 10 / 11; a tie on side e
WeeklyLoss(deficit, e) == FRound(deficit.n * 10, deficit.d * 11, e)

\* a weight in centi-kg whose double is exact: a multiple of a quarter of a kg
ExactKg(weight_c) == weight_c % 25 = 0

(* The sides the float operations of one call can take, fp = [t, d, s, w, k]:
     t  total_kcal_needed (line 208)     d  daily_deficit (line 209)
     s  suggested_daily (line 222)       w  weekly_loss_kg at a tie of round()
     k  est_weeks_needed (line 219) at a tie of round()
   A quotient of an exact dividend by an exact divisor with an exact result is
   exact, and rounding is monotone: d is 0 or t, s is 0 or -d.  The difference
   and the product of exact weights are exact: t is 0.  A side that no jump
   can see is 0.  *)
FpOutcomes(current_weight, target_weight, tdee_k, days_n) ==
    IF NeedsNoDeficit(current_weight - target_weight)
    THEN {[t |-> 0, d |-> 0, s |-> 0, w |-> 0, k |-> 0]}
    ELSE
    LET total == TotalKcal(current_weight, target_weight)
        den   == Max(days_n, 1)
    IN  {f \in [t : Sides, d : Sides, s : Sides, w : Sides, k : Sides] :
           LET req == RequestedDeficit(current_weight, target_weight, days_n, f.d)
               cap == CappedDeficit(req)
           IN  /\ f.t \in (IF ExactKg(current_weight) /\ ExactKg(target_weight)
                           THEN {0} ELSE Sides)
               /\ f.d \in (IF total % den = 0 THEN {0, f.t} ELSE {0})
               /\ f.s \in {0, -cap.e}
               /\ f.w \in (IF 2 * ((total * 10) % (den * 11)) = den * 11 THEN Sides ELSE {0})
               /\ f.k \in (IF ExceedsSafeDeficit(req)
                              /\ 2 * ((total * 10) % (max_safe_deficit * 7))
                                   = max_safe_deficit * 7
                           THEN Sides ELSE {0})}

\* recommend_calories_for_weight_loss(current_weight, target_weight, tdee, days,
\* sex), weights in centi-kg, with the float operations on the sides fp.  The
\* fields of the result are in the units
\*   kg_to_lose centi-kg, weekly_loss_kg thousandths, estimated_weeks_needed tenths
recommend_calories_for_weight_loss(current_weight, target_weight, tdee_k, days_n, sex_s, f) ==
    LET kg_to_lose == current_weight - target_weight IN
    IF NeedsNoDeficit(kg_to_lose)
    THEN [message |-> "Target weight is not less than current weight. No calorie deficit needed."]
    ELSE
    LET total     == TotalKcal(current_weight, target_weight)
        requested == RequestedDeficit(current_weight, target_weight, days_n, f.d)
        clamp     == ExceedsSafeDeficit(requested)
        deficit   == CappedDeficit(requested)
        suggested == SuggestedDaily(tdee_k, deficit, f.s)
        low       == BelowMinimum(suggested)
    IN  [kg_to_lose               |-> kg_to_lose,
         total_kcal_needed        |-> FInt([n |-> total, d |-> 1, e |-> f.t]),
         daily_deficit            |-> FInt(deficit),
         suggested_daily_calories |-> IF low THEN min_cal ELSE FInt(suggested),
         warnings                 |-> (IF clamp THEN <<"max safe deficit">> ELSE <<>>)
                                      \o (IF low THEN <<"minimum calories">> ELSE <<>>),
         \* line 213: computed from daily_deficit before the cap is applied
         weekly_loss_kg           |-> WeeklyLoss(requested, f.w),
         estimated_weeks_needed   |-> IF clamp
                                      THEN FRound(total * 10, max_safe_deficit * 7, f.k)
                                      ELSE RoundDiv(days_n * 10, 7)]

-----------------------------------------------------------------------------
(* What the user types *)

DigitChar(d) == <<"0","1","2","3","4","5","6","7","8","9">>[d + 1]

RECURSIVE NatText(_)
NatText(n) ==
    IF n < 10 THEN <<DigitChar(n)>> ELSE NatText(n \div 10) \o <<DigitChar(n % 10)>>

\* the numeral with three decimals of v thousandths: 3001 is typed "3.001"
NumeralText(v) ==
    NatText(v \div Milli) \o <<".">>
      \o <<DigitChar((v \div 100) % 10), DigitChar((v \div 10) % 10), DigitChar(v % 10)>>

\* pound weights are typed in every thousandth from 0 to this many thousandths
MaxLbMilli == 40

\* bare heights are typed in every thousandth this far on both sides of 3
BareWindow == 49

WeightNumerals ==
    {<<"0">>, <<"0",".","0","0","1">>, <<"0",".","0","0","4">>,
     <<".","0","1">>, <<"0",".","5">>, <<"5">>, <<"7","0">>,
     <<"7","0",".","5">>, <<"7","0",",","5">>, <<"1","5","4">>,
     <<"1","8","0",".","3">>, <<"0",".","1","2","5">>, <<"4","0","0">>,
     <<"-","5">>, <<"1",".","7",".","5">>, <<"+","5">>, <<"5",".">>}

WeightSuffixes ==
    {<<>>, <<"k","g">>, <<" ","k","g">>, <<" ","k","g","s">>,
     <<" ","K","G">>, <<"l","b">>, <<" ","l","b">>, <<" ","l","b","s">>,
     <<" ","L","b">>, <<" ","s","t","o","n","e">>, <<" ","g">>,
     <<" ","k","g"," ","e","x","t","r","a">>}

WeightOddLines ==
    {<<>>, <<" ">>, <<"k","g">>, <<"7","k","0","g">>,
     <<" ","7","0"," ","k","g"," ">>}

\* the lines typed at parse_weight's prompt
WeightLines ==
    {n \o u : n \in WeightNumerals, u \in WeightSuffixes}
      \cup {NumeralText(v) \o <<" ","l","b">> : v \in 0..MaxLbMilli}
      \cup WeightOddLines

HeightNumerals ==
    {<<"0">>, <<"0",".","0">>, <<"0",".","5">>, <<"1",".","7","5">>,
     <<"1",".","7">>, <<"2",".","5">>, <<"3">>, <<"3",".","0">>,
     <<"3",".","5">>, <<"5">>, <<"9">>, <<"1","7","0">>, <<"1","7","5">>,
     <<"1","7","0",".","2","5">>, <<"1","8","0",".","3">>, <<"-","5">>,
     <<"-","1",".","7","5">>, <<"1","7","0",",","5">>,
     <<"1",".","7",".","5">>, <<"+","6">>, <<"2","5","0">>}

HeightSuffixes ==
    {<<>>, <<"c","m">>, <<" ","c","m">>, <<" ","c","m","s">>,
     <<" ","C","M">>, <<" ","c">>, <<"m">>, <<" ","m">>,
     <<" ","m","e","t","e","r">>, <<" ","m","e","t","e","r","s">>,
     <<" ","M">>, <<" ","M","e","t","e","r">>, <<"f","t">>, <<" ","f","t">>,
     <<" ","f","e","e","t">>, <<" ","f","o","o","t">>, <<"'">>,
     <<" ","i","n">>, <<"\"">>, <<" ","m","m">>}

FeetNumerals ==
    {<<"0">>, <<"5">>, <<"6">>, <<"5",".","5">>, <<"-","5">>}

InchNumerals ==
    {<<"0">>, <<"9">>, <<"1","1">>, <<"9",".","5">>}

FeetInchForms ==
    {<<<<" ","f","t"," ">>, <<" ","i","n">>>>,
     <<<<"f","t">>, <<"i","n">>>>,
     <<<<"'">>, <<"\"">>>>,
     <<<<" ">>, <<>>>>,
     <<<<"'"," ">>, <<>>>>,
     <<<<" ","f","e","e","t"," ">>, <<" ","i","n","c","h","e","s">>>>,
     <<<<" ","f","o","o","t"," ">>, <<>>>>}

HeightOddLines ==
    {<<>>, <<" ">>, <<"c","m">>, <<"f","t">>,
     <<"5"," ","f","t"," ","i","n">>, <<" ","1","7","0"," ","c","m"," ">>}

\* the lines typed at parse_height's prompt
HeightLines ==
    {n \o u : n \in HeightNumerals, u \in HeightSuffixes}
      \cup {NumeralText(v) : v \in (3 * Milli - BareWindow)..(3 * Milli + BareWindow)}
      \cup {f \o p[1] \o i \o p[2] : f \in FeetNumerals, i \in InchNumerals, p \in FeetInchForms}
      \cup HeightOddLines

-----------------------------------------------------------------------------
(* parse_weight and parse_height on their own: the prompt loop of each *)

\* a local that is not bound holds 0 (a number), the empty text or an empty dict;
\* pc tells which locals are bound
NoLocals ==
    /\ weight = 0 /\ target = 0 /\ age = 0 /\ sex = <<>> /\ height = 0
    /\ activity = <<>> /\ tdee = 0 /\ days = 0

NoPlan == [none |-> TRUE]

NoSides == [t |-> 0, d |-> 0, s |-> 0, w |-> 0, k |-> 0]

NoResults == plan = NoPlan /\ macros = NoPlan /\ fp = NoSides

InitWeight ==
    /\ pc = "parse_weight"
    /\ consent = FALSE /\ choice = <<>> /\ raw = <<>>
    /\ NoLocals /\ NoResults
    /\ out = None /\ err = None

\* one pass of the loop of parse_weight: a line is read, and is returned or refused
WeightRead ==
    /\ pc = "parse_weight"
    /\ \E line \in WeightLines :
         LET r == ParseWeight(line) IN
         /\ raw' = line
         /\ IF r.ret
            THEN weight' = r.val /\ pc' = "returned" /\ out' = out
            ELSE weight' = weight /\ pc' = pc /\ out' = r.msg
    /\ UNCHANGED <<consent, choice, target, age, sex, height, activity, tdee, days,
                   plan, macros, fp, err>>

NextWeight == WeightRead

SpecWeight == InitWeight /\ [][NextWeight]_vars

InitHeight ==
    /\ pc = "parse_height"
    /\ consent = FALSE /\ choice = <<>> /\ raw = <<>>
    /\ NoLocals /\ NoResults
    /\ out = None /\ err = None

\* one pass of the loop of parse_height: a line is read, and is returned or refused
HeightRead ==
    /\ pc = "parse_height"
    /\ \E line \in HeightLines :
         LET r == ParseHeight(line) IN
         /\ raw' = line
         /\ IF r.ret
            THEN height' = r.val /\ pc' = "returned" /\ out' = out
            ELSE height' = height /\ pc' = pc /\ out' = r.msg
    /\ UNCHANGED <<consent, choice, weight, target, age, sex, activity, tdee, days,
                   plan, macros, fp, err>>

NextHeight == HeightRead

SpecHeight == InitHeight /\ [][NextHeight]_vars

-----------------------------------------------------------------------------
(* Properties of the parsers *)

\* C5: every value parse_height returns is strictly greater than 0 cm; a line
\* whose number is zero or negative is refused and asked again.
HeightAlwaysPositive == pc = "returned" => height > 0

\* C6: every value parse_weight returns is strictly greater than 0 kg once
\* rounded to 2 decimals.
WeightAlwaysPositive == pc = "returned" => weight > 0

\* the line is one bare number and nothing else: a sign, digits, '.' or ','
BareNumber(line) ==
    LET s == Strip(line) IN
    /\ s # <<>>
    /\ \A i \in 1..Len(s) : IsDigit(s[i]) \/ s[i] \in {".", ",", "-", "+"}
    /\ Float(Replace(s, <<",">>, <<".">>)).ok

\* the number a bare line denotes, in thousandths
BareValue(line) == Float(Replace(Strip(line), <<",">>, <<".">>)).v

EndsWith(s, p) == Len(s) >= Len(p) /\ SubSeq(s, Len(s) - Len(p) + 1, Len(s)) = p

\* the line ends with the metres unit, 'm' or 'meter'
HasMetresUnit(line) == EndsWith(Lower(Strip(line)), <<"m">>)
                         \/ EndsWith(Lower(Strip(line)), <<"m","e","t","e","r">>)

\* what stands before the metres unit of such a line
BeforeMetres(line) ==
    LET s == Lower(Strip(line)) IN
    IF EndsWith(s, <<"m","e","t","e","r">>) THEN SubSeq(s, 1, Len(s) - 5)
    ELSE SubSeq(s, 1, Len(s) - 1)

\* the line is a positive number followed by 'm' or 'meter'
MetresLine(line) ==
    HasMetresUnit(line) /\ Float(BeforeMetres(line)).ok /\ Float(BeforeMetres(line)).v > 0

\* C8: a number followed by the metres unit ('1.75 m') is accepted and returned
\* as that number times 100 cm, not refused.
MetresAccepted ==
    MetresLine(raw) => (pc = "returned" /\ height = Float(BeforeMetres(raw)).v)

-----------------------------------------------------------------------------
(* recommend_calories_for_weight_loss on its own: one call on any arguments *)

MaxWeightSteps == 4
MaxTdeeSteps == 5
MaxDays == 80

\* current_weight and target_weight, centi-kg: 30 kg and up in steps of 10 kg,
\* each with 0.02 kg and 1.25 kg more
PlanWeights == {3000 + 1000 * i + o : i \in 0..MaxWeightSteps, o \in {0, 2, 125}}

\* tdee, kcal
PlanTdees == {1200 + 250 * i : i \in 0..MaxTdeeSteps}

InitPlan ==
    /\ pc = "call"
    /\ consent = TRUE /\ choice = <<"2">> /\ raw = <<>>
    /\ weight \in PlanWeights /\ target \in PlanWeights
    /\ tdee \in PlanTdees /\ days \in 0..MaxDays
    /\ age = 0 /\ sex = <<"o","t","h","e","r">> /\ height = 0 /\ activity = <<>>
    /\ NoResults
    /\ out = None /\ err = None

\* the call recommend_calories_for_weight_loss(weight, target, tdee, days, sex)
PlanCall ==
    /\ pc = "call"
    /\ \E f \in FpOutcomes(weight, target, tdee, days) :
         /\ fp' = f
         /\ plan' = recommend_calories_for_weight_loss(weight, target, tdee, days, sex, f)
    /\ pc' = "returned"
    /\ UNCHANGED <<consent, choice, raw, weight, target, age, sex, height, activity,
                   tdee, days, macros, out, err>>

NextPlan == PlanCall

SpecPlan == InitPlan /\ [][NextPlan]_vars

-----------------------------------------------------------------------------
(* Properties of the plan *)

Warned(p, w) == \E i \in 1..Len(p.warnings) : p.warnings[i] = w

\* the call returned a full plan: target_weight < current_weight
FullPlan == pc = "returned" /\ target < weight

\* the requested deficit (current_weight - target_weight) * 7700 / max(days, 1)
\* as the call computed it
Requested == RequestedDeficit(weight, target, days, fp.d)

\* C1: with target_weight < current_weight the reported daily_deficit never
\* exceeds 1000 kcal/day, and the clamp warning is among the warnings exactly
\* when the requested deficit is greater than 1000.
DeficitClamped ==
    FullPlan =>
      /\ plan.daily_deficit <= 1000
      /\ Warned(plan, "max safe deficit") <=> (Requested.n > 1000 * Requested.d
                                                \/ (Requested.n = 1000 * Requested.d
                                                      /\ Requested.e > 0))

\* C1's case: the requested deficit is above 1000, the plan reports 1000 and warns
ClampFired ==
    FullPlan /\ Requested.n > 1000 * Requested.d
      /\ plan.daily_deficit = 1000 /\ Warned(plan, "max safe deficit")

\* tdee minus the deficit after the clamp, as the call computed it
AfterClamp ==
    SuggestedDaily(tdee, IF Warned(plan, "max safe deficit")
                         THEN [n |-> 1000, d |-> 1, e |-> 0] ELSE Requested, fp.s)

\* C2: with target_weight < current_weight suggested_daily_calories is at least
\* 1200, and the minimum-intake warning is present exactly when tdee minus the
\* deficit after the clamp is below 1200, with or without the clamp warning.
IntakeFloored ==
    FullPlan =>
      /\ plan.suggested_daily_calories >= 1200
      /\ Warned(plan, "minimum calories") <=> (AfterClamp.n < 1200 * AfterClamp.d
                                                \/ (AfterClamp.n = 1200 * AfterClamp.d
                                                      /\ AfterClamp.e < 0))

\* C2's case: the intake was raised to the floor in a plan whose deficit was
\* not clamped, so the minimum-intake warning is the only one
FloorFiredAlone ==
    FullPlan /\ plan.warnings = <<"minimum calories">>
      /\ plan.suggested_daily_calories = 1200 /\ AfterClamp.n < 1200 * AfterClamp.d

\* C3: in every full plan weekly_loss_kg is (deficit_used * 7) / 7700 rounded to
\* 3 decimals, deficit_used being the deficit after the safety clamp, also in
\* the plans where the clamp fired.
WeeklyLossFromDeficitUsed ==
    FullPlan =>
      plan.weekly_loss_kg =
        WeeklyLoss(IF Warned(plan, "max safe deficit")
                   THEN [n |-> 1000, d |-> 1, e |-> 0] ELSE Requested, fp.w)

\* C4: with target_weight >= current_weight the result carries the message
\* only, none of the plan's fields, and no error is raised.
MessageOnly ==
    (pc = "returned" /\ target >= weight) => (DOMAIN plan = {"message"} /\ err = None)

\* C4's case: the target equals the current weight and the message came back
EqualWeightsMessage ==
    pc = "returned" /\ target = weight /\ DOMAIN plan = {"message"}

-----------------------------------------------------------------------------
(* recommend_macros on its own: one call on any arguments *)

MaxCalories == 1400
MaxMacroSteps == 18

\* weight_kg, centi-kg: 40 kg and up in steps of 5 kg
MacroWeights == {4000 + 500 * i : i \in 0..MaxMacroSteps}

\* activity_key: the five keys of ACTIVITY_LEVELS and one that is not a key
ActivityKeys == {<<"1">>, <<"2">>, <<"3">>, <<"4">>, <<"5">>, <<"9">>}

\* the plan holds the suggested_daily_calories the call is made with
InitMacros ==
    /\ pc = "call"
    /\ consent = TRUE /\ choice = <<"2">> /\ raw = <<>>
    /\ weight \in MacroWeights /\ activity \in ActivityKeys
    /\ plan \in {[suggested_daily_calories |-> c] : c \in 0..MaxCalories}
    /\ target = 0 /\ age = 0 /\ sex = <<>> /\ height = 0 /\ tdee = 0 /\ days = 0
    /\ macros = NoPlan /\ fp = NoSides
    /\ out = None /\ err = None

\* the call recommend_macros(plan["suggested_daily_calories"], weight, activity)
MacrosCall ==
    /\ pc = "call"
    /\ macros' = recommend_macros(plan.suggested_daily_calories, weight, activity)
    /\ pc' = "returned"
    /\ UNCHANGED <<consent, choice, raw, weight, target, age, sex, height, activity,
                   tdee, days, plan, fp, out, err>>

NextMacros == MacrosCall

SpecMacros == InitMacros /\ [][NextMacros]_vars

\* C9: carb_kcal and carb_g are never negative; when suggested_calories is at
\* least protein_kcal + fat_kcal the three kcal figures add up to
\* suggested_calories within 1 kcal, and when it is less both carb figures are 0.
CarbsAreTheRest ==
    pc = "returned" =>
      LET total == macros.protein_kcal + macros.fat_kcal + macros.carb_kcal
          asked == plan.suggested_daily_calories
      IN  /\ macros.carb_kcal >= 0 /\ macros.carb_g >= 0
          /\ asked >= macros.protein_kcal + macros.fat_kcal
               => (total - asked <= 1 /\ asked - total <= 1)
          /\ asked < macros.protein_kcal + macros.fat_kcal
               => (macros.carb_kcal = 0 /\ macros.carb_g = 0)

\* C9's case: protein and fat alone exceed the calories asked for by more than
\* 4 kcal, and both carb figures came back 0
CarbsFlooredAtZero ==
    pc = "returned"
      /\ plan.suggested_daily_calories + 4 < macros.protein_kcal + macros.fat_kcal
      /\ macros.carb_kcal = 0 /\ macros.carb_g = 0

-----------------------------------------------------------------------------
(* main: the consent question, the menu loop and the two actions *)

ConsentLines ==
    {<<"I"," ","A","G","R","E","E">>, <<"i"," ","a","g","r","e","e">>,
     <<" ","I"," ","A","g","r","e","e"," ">>, <<>>, <<"y","e","s">>,
     <<"I"," ","A","G","R","E","E",".">>}

MenuLines ==
    {<<"1">>, <<"2">>, <<"3">>, <<"4">>, <<"e","x","i","t">>,
     <<"Q","U","I","T">>, <<"E","x","i","t"," ">>, <<" ","2"," ">>, <<"5">>,
     <<>>}

\* the lines typed at the weight prompts of main's actions
MainWeightLines ==
    {<<"7","0">>, <<"8","0"," ","k","g">>, <<"1","5","4"," ","l","b">>,
     <<".","0","1","l","b">>, <<"0">>, <<>>,
     <<"7","0"," ","s","t","o","n","e">>}

\* the lines typed at the height prompts of main's actions
MainHeightLines ==
    {<<"1","7","0">>, <<"1",".","7","5">>, <<"5","'","9","\"">>, <<"0">>,
     <<"1",".","7","5"," ","m">>, <<>>}

AgeLines ==
    {<<"3","0">>, <<"1","7",".","9">>, <<"1","8">>, <<"8","1">>, <<"0">>,
     <<"a","b","c">>, <<>>}

SexLines ==
    {<<"m","a","l","e">>, <<"F","e","m","a","l","e">>, <<"f">>, <<>>}

YesNoLines ==
    {<<"y">>, <<"Y","e","s">>, <<"n">>, <<>>}

ActivityLines ==
    {<<>>, <<"3">>, <<"5">>, <<"9">>}

WeeksLines ==
    {<<"1","0">>, <<"1","1">>, <<"0",".","5">>, <<"0",".","0","5">>, <<"0">>,
     <<>>}

\* safe_float_input: one pass of its loop on the line read, the value in thousandths
SafeFloatInput(line) ==
    LET f == Float(Strip(line)) IN
    IF f.ok /\ f.v > 0 THEN Return(f.v)
    ELSE Retry("Please enter a positive number (e.g. 70 or 70.5).")

\* `s.strip() or default`
StripOr(line, default) == IF Strip(line) = <<>> THEN default ELSE Strip(line)

\* line 378: choice == "4" or choice.lower() in ("exit", "quit")
IsExit(c) == c = <<"4">> \/ Lower(c) \in {<<"e","x","i","t">>, <<"q","u","i","t">>}

\* line 131: weight / (height_m ** 2) raises ZeroDivisionError
DividesByZero(height_d) == height_d = 0

Init ==
    /\ pc = "consent"
    /\ consent = FALSE /\ choice = <<>> /\ raw = <<>>
    /\ NoLocals /\ NoResults
    /\ out = "Welcome" /\ err = None

\* show_disclaimer_and_get_consent
Consent ==
    /\ pc = "consent"
    /\ \E line \in ConsentLines :
         /\ raw' = line
         /\ consent' = (Upper(Strip(line)) = <<"I"," ","A","G","R","E","E">>)
    /\ pc' = "menu"
    /\ UNCHANGED <<choice, weight, target, age, sex, height, activity, tdee, days,
                   plan, macros, fp, out, err>>

\* line 371: the menu is printed and a choice is read; the locals of the action
\* that ran before are gone
ReadChoice(line) ==
    /\ pc = "menu"
    /\ raw' = line /\ choice' = Strip(line)
    /\ weight' = 0 /\ target' = 0 /\ age' = 0 /\ sex' = <<>> /\ height' = 0
    /\ activity' = <<>> /\ tdee' = 0 /\ days' = 0
    /\ plan' = NoPlan /\ macros' = NoPlan /\ fp' = NoSides
    /\ UNCHANGED <<consent, err>>

\* choice "1": action_check_bmi starts
ChooseBmi ==
    \E line \in MenuLines :
      /\ Strip(line) = <<"1">>
      /\ ReadChoice(line)
      /\ pc' = "bmi_weight" /\ out' = "-- BMI Calculator --"

\* choice "2": action_plan(consent) starts, or returns at once without consent
ChoosePlan ==
    \E line \in MenuLines :
      /\ Strip(line) = <<"2">>
      /\ ReadChoice(line)
      /\ IF consent
         THEN pc' = "plan_weight" /\ out' = "-- Weight-loss calorie planner --"
         ELSE pc' = "menu" /\ out' = "Personalized calorie plans are disabled"

\* choice "3": print_health_tips
ChooseTips ==
    \E line \in MenuLines :
      /\ Strip(line) = <<"3">>
      /\ ReadChoice(line)
      /\ pc' = "menu" /\ out' = "General health tips:"

\* choice "4", "exit" or "quit": the loop breaks
ChooseExit ==
    \E line \in MenuLines :
      /\ Strip(line) \notin {<<"1">>, <<"2">>, <<"3">>}
      /\ IsExit(Strip(line))
      /\ ReadChoice(line)
      /\ pc' = "exit" /\ out' = "Goodbye"

\* any other choice
ChooseInvalid ==
    \E line \in MenuLines :
      /\ Strip(line) \notin {<<"1">>, <<"2">>, <<"3">>}
      /\ ~IsExit(Strip(line))
      /\ ReadChoice(line)
      /\ pc' = "menu" /\ out' = "Invalid choice"

\* action_check_bmi, line 266: one pass of parse_weight's loop
BmiWeight ==
    /\ pc = "bmi_weight"
    /\ \E line \in MainWeightLines :
         LET r == ParseWeight(line) IN
         /\ raw' = line
         /\ IF r.ret
            THEN weight' = r.val /\ pc' = "bmi_height" /\ out' = out
            ELSE weight' = weight /\ pc' = pc /\ out' = r.msg
    /\ UNCHANGED <<consent, choice, target, age, sex, height, activity, tdee, days,
                   plan, macros, fp, err>>

\* action_check_bmi, lines 267-280: one pass of parse_height's loop, and on a
\* returned height the BMI, its category and the advice; a height of 0 makes
\* calculate_bmi raise, which nothing catches
BmiHeight ==
    /\ pc = "bmi_height"
    /\ \E line \in MainHeightLines :
         LET r == ParseHeight(line) IN
         /\ raw' = line
         /\ IF ~r.ret
            THEN height' = height /\ pc' = pc /\ out' = r.msg /\ err' = err
            ELSE /\ height' = r.val
                 /\ IF DividesByZero(r.val)
                    THEN pc' = "crash" /\ err' = "ZeroDivisionError" /\ out' = out
                    ELSE /\ pc' = "menu" /\ err' = err
                         /\ out' = bmi_category(calculate_bmi(weight, r.val))
    /\ UNCHANGED <<consent, choice, weight, target, age, sex, activity, tdee, days,
                   plan, macros, fp>>

\* action_plan, line 303
PlanWeight ==
    /\ pc = "plan_weight"
    /\ \E line \in MainWeightLines :
         LET r == ParseWeight(line) IN
         /\ raw' = line
         /\ IF r.ret
            THEN weight' = r.val /\ pc' = "plan_target" /\ out' = out
            ELSE weight' = weight /\ pc' = pc /\ out' = r.msg
    /\ UNCHANGED <<consent, choice, target, age, sex, height, activity, tdee, days,
                   plan, macros, fp, err>>

\* action_plan, line 304
PlanTarget ==
    /\ pc = "plan_target"
    /\ \E line \in MainWeightLines :
         LET r == ParseWeight(line) IN
         /\ raw' = line
         /\ IF r.ret
            THEN target' = r.val /\ pc' = "plan_age" /\ out' = out
            ELSE target' = target /\ pc' = pc /\ out' = r.msg
    /\ UNCHANGED <<consent, choice, weight, age, sex, height, activity, tdee, days,
                   plan, macros, fp, err>>

\* action_plan, lines 305-312: one pass of safe_float_input's loop, int() and
\* the age checks
PlanAge ==
    /\ pc = "plan_age"
    /\ \E line \in AgeLines :
         LET r == SafeFloatInput(line)
             a == TruncDiv(r.val, Milli)
         IN  /\ raw' = line
             /\ IF ~r.ret THEN age' = age /\ pc' = pc /\ out' = r.msg
                ELSE /\ age' = a
                     /\ IF a < 18 THEN pc' = "menu" /\ out' = "Warning: You are under 18."
                        ELSE IF a > 80
                             THEN pc' = "plan_sex" /\ out' = "Note: For older adults (80+)"
                        ELSE pc' = "plan_sex" /\ out' = out
    /\ UNCHANGED <<consent, choice, weight, target, sex, height, activity, tdee, days,
                   plan, macros, fp, err>>

\* action_plan, lines 314-317
PlanSex ==
    /\ pc = "plan_sex"
    /\ \E line \in SexLines :
         /\ raw' = line
         /\ sex' = StripOr(line, <<"o","t","h","e","r">>)
         /\ pc' = IF StartsWith(Lower(sex'), <<"f">>) THEN "plan_preg" ELSE "plan_med"
    /\ UNCHANGED <<consent, choice, weight, target, age, height, activity, tdee, days,
                   plan, macros, fp, out, err>>

\* action_plan, lines 318-321
PlanPregnant ==
    /\ pc = "plan_preg"
    /\ \E line \in YesNoLines :
         /\ raw' = line
         /\ IF StartsWith(Lower(Strip(line)), <<"y">>)
            THEN pc' = "menu" /\ out' = "Because you are pregnant/breastfeeding"
            ELSE pc' = "plan_med" /\ out' = out
    /\ UNCHANGED <<consent, choice, weight, target, age, sex, height, activity, tdee,
                   days, plan, macros, fp, err>>

\* action_plan, lines 323-326
PlanMedical ==
    /\ pc = "plan_med"
    /\ \E line \in YesNoLines :
         /\ raw' = line
         /\ IF StartsWith(Lower(Strip(line)), <<"y">>)
            THEN pc' = "menu" /\ out' = "Because of your medical condition"
            ELSE pc' = "plan_height" /\ out' = out
    /\ UNCHANGED <<consent, choice, weight, target, age, sex, height, activity, tdee,
                   days, plan, macros, fp, err>>

\* action_plan, lines 328-332
PlanHeight ==
    /\ pc = "plan_height"
    /\ \E line \in MainHeightLines :
         LET r == ParseHeight(line) IN
         /\ raw' = line
         /\ IF r.ret
            THEN height' = r.val /\ pc' = "plan_activity" /\ out' = "Select activity level:"
            ELSE height' = height /\ pc' = pc /\ out' = r.msg
    /\ UNCHANGED <<consent, choice, weight, target, age, sex, activity, tdee, days,
                   plan, macros, fp, err>>

\* action_plan, lines 333-336
PlanActivity ==
    /\ pc = "plan_activity"
    /\ \E line \in ActivityLines :
         /\ raw' = line
         /\ activity' = StripOr(line, <<"1">>)
         /\ tdee' = estimate_tdee(weight, height, age, sex, activity')
    /\ pc' = "plan_weeks" /\ out' = "Estimated TDEE"
    /\ UNCHANGED <<consent, choice, weight, target, age, sex, height, days,
                   plan, macros, fp, err>>

\* action_plan, lines 338-363: one pass of safe_float_input's loop, the days,
\* the plan and, for a full plan, the macros
PlanWeeks ==
    /\ pc = "plan_weeks"
    /\ \E line \in WeeksLines :
         LET r == SafeFloatInput(line)
             d == Max(1, RoundDiv(r.val * 7, Milli))
         IN  /\ raw' = line
             /\ IF ~r.ret
                THEN /\ pc' = pc /\ out' = r.msg
                     /\ UNCHANGED <<days, plan, macros, fp>>
                ELSE /\ days' = d
                     /\ \E f \in FpOutcomes(weight, target, tdee, d) :
                          /\ fp' = f
                          /\ plan' = recommend_calories_for_weight_loss(
                                         weight, target, tdee, d, sex, f)
                     /\ IF "message" \in DOMAIN plan'
                        THEN macros' = macros /\ out' = plan'.message
                        ELSE /\ macros' = recommend_macros(plan'.suggested_daily_calories,
                                                           weight, activity)
                             /\ out' = "Suggested daily macronutrients (approx):"
                     /\ pc' = "menu"
    /\ UNCHANGED <<consent, choice, weight, target, age, sex, height, activity, tdee, err>>

Next ==
    \/ Consent
    \/ ChooseBmi \/ ChoosePlan \/ ChooseTips \/ ChooseExit \/ ChooseInvalid
    \/ BmiWeight \/ BmiHeight
    \/ PlanWeight \/ PlanTarget \/ PlanAge \/ PlanSex \/ PlanPregnant \/ PlanMedical
    \/ PlanHeight \/ PlanActivity \/ PlanWeeks

Spec == Init /\ [][Next]_vars

-----------------------------------------------------------------------------
(* Properties of main *)

PlanPrompts ==
    {"plan_weight", "plan_target", "plan_age", "plan_sex", "plan_preg", "plan_med",
     "plan_height", "plan_activity", "plan_weeks"}

\* without consent the program is at none of the planner's prompts and holds
\* no plan and no macros
PlansDisabled ==
    ~consent => (pc \notin PlanPrompts /\ plan = NoPlan /\ macros = NoPlan)

\* consent is asked once at startup, and is true only if 'I AGREE' was typed
\* (in any case)
ConsentAskedOnce ==
    /\ pc = "consent" => (consent' <=> Upper(Strip(raw')) = <<"I"," ","A","G","R","E","E">>)
    /\ pc # "consent" => (consent' = consent /\ pc' # "consent")

\* options 1 and 3 do their work whatever consent is
BmiAndTipsUsable ==
    /\ (pc = "menu" /\ choice' = <<"1">>) => pc' = "bmi_weight"
    /\ (pc = "menu" /\ choice' = <<"3">>) => out' = "General health tips:"

\* the loop has ended only after option 4, 'exit' or 'quit'
EndsOnlyOnExit == pc \in {"exit", "crash"} => IsExit(choice)

\* C10: consent is asked once at startup and is true only if the user typed
\* 'I AGREE' (case-insensitive); with consent false, option 2 never prompts for
\* measurements nor computes a plan, options 1 and 3 stay usable, and the loop
\* ends only on option 4 / 'exit' / 'quit'.
MainLoopContract ==
    /\ []PlansDisabled
    /\ [][ConsentAskedOnce /\ BmiAndTipsUsable]_vars
    /\ []EndsOnlyOnExit

====
